---- MODULE Spec2Model ----
(***************************************************************************)
(* Model of agent_container.py: the runtime shim that registers an agent  *)
(* with the core system, polls /api/messages/pending, dispatches every    *)
(* fetched message through the two-phase interest/process protocol and    *)
(* tries to subscribe to the event-driven system.                         *)
(*                                                                         *)
(* The program is one thread.  pc is the statement the thread is about to *)
(* execute; every network call and every call into the agent is one step, *)
(* whose outcome (status code, raised exception, no answer at all) is     *)
(* chosen by the environment.  KeyboardInterrupt may arrive at any step.  *)
(***************************************************************************)
EXTENDS Integers, Sequences, FiniteSets, TLC

\* ---------------------------------------------------------------- bounds
MaxBatch == 2
MaxScore == 2
Max404 == 3

\* ------------------------------------------------------- program constants
AGENT_ID == "agent5"

\* ------------------------------------------------------------- the world
\* HTTP status codes the core system may answer with.
Statuses == {200, 404, 500}

\* What a requests.get / requests.post call can do: return a response with a
\* status code, raise a requests exception, or (no timeout= is passed) never
\* return.
Status(c) == [k |-> "status", code |-> c]
Raised == [k |-> "raise", code |-> 0]
NoAnswer == [k |-> "hang", code |-> 0]
NotCalled == [k |-> "none", code |-> 0]
Answers == {Status(c) : c \in Statuses} \cup {Raised, NoAnswer}
\* For the calls whose code tells 200 from every other status only, one
\* status other than 200 stands for all of them.
PlainAnswers == {Status(200), Status(500), Raised, NoAnswer}

\* Elements of the JSON array returned by /api/messages/pending: a mapping
\* with an "id", a mapping without an "id", or a JSON value that is not a
\* mapping at all (a string, a number, null, a list).
MsgIds == {"m1", "m2"}
NoId == "-"
Messages == [kind : {"dict"}, id : MsgIds \cup {NoId}] \cup {[kind |-> "other", id |-> NoId]}
NoMessage == [kind |-> "none", id |-> NoId]

RECURSIVE SeqsUpTo(_, _)
SeqsUpTo(S, n) ==
    IF n = 0 THEN {<<>>}
    ELSE LET shorter == SeqsUpTo(S, n - 1)
         IN  shorter \cup {Append(s, x) : s \in {t \in shorter : Len(t) = n - 1}, x \in S}

Batches == SeqsUpTo(Messages, MaxBatch)

\* Values of agent.calculate_interest and agent.classifier_threshold.
Scores == 0..MaxScore
Thresholds == 1..MaxScore

\* Values agent.process_message may return: None, a dict (possibly empty),
\* or some other truthy value (a non-empty string).
Keys == {"agent_id", "data"}
Vals == {AGENT_ID, "x"}
Dicts == {f \in UNION {[D -> Vals] : D \in SUBSET Keys} :
            "data" \in DOMAIN f => f["data"] = "x"}
EmptyDict == [key \in {} |-> "x"]
NoResult == [kind |-> "none", d |-> EmptyDict]
Results == {NoResult, [kind |-> "str", d |-> EmptyDict]} \cup {[kind |-> "dict", d |-> f] : f \in Dicts}

NoLog == [src |-> "-", level |-> "-", ident |-> "-"]
Log(src, level, ident) == [src |-> src, level |-> level, ident |-> ident]

\* ------------------------------------------------------- pure operations
\* message['id'] (lines 124, 129, 150, 158, 162): KeyError on a mapping
\* without the key, TypeError on a value that is not a mapping.
MessageIndex(msg) ==
    IF msg.kind = "dict" /\ msg.id # NoId
    THEN [ok |-> TRUE, v |-> msg.id]
    ELSE [ok |-> FALSE, v |-> NoId]

\* message.get('id', 'unknown') (line 167): only mappings have .get; on any
\* other value the call raises AttributeError.
MessageGet(msg) ==
    IF msg.kind = "dict"
    THEN [ok |-> TRUE, v |-> IF msg.id # NoId THEN msg.id ELSE "unknown"]
    ELSE [ok |-> FALSE, v |-> NoId]

\* Variant of Truthy without the test of line 143: whatever the agent returns
\* is submitted.
TruthyAlways(r) == TRUE

\* `if result:` (line 143): None and the empty dict are falsy.
Truthy(r) == r.kind = "str" \/ (r.kind = "dict" /\ DOMAIN r.d # {})

\* Variant of InjectAgentId that sets agent_id whether or not the key is there.
InjectAgentIdAlways(r) ==
    IF r.kind = "dict"
    THEN [r EXCEPT !.d = [key \in DOMAIN r.d \cup {"agent_id"} |->
                            IF key = "agent_id" THEN AGENT_ID ELSE r.d[key]]]
    ELSE r

\* Lines 145-146: insert agent_id into a dict that lacks the key.
InjectAgentId(r) ==
    IF r.kind = "dict" /\ "agent_id" \notin DOMAIN r.d
    THEN [r EXCEPT !.d = [key \in DOMAIN r.d \cup {"agent_id"} |->
                            IF key = "agent_id" THEN AGENT_ID ELSE r.d[key]]]
    ELSE r

\* Line 139: the gate of phase 2.
Gate(s, th) == s >= th

\* register_with_core_system, lines 52-60: return value and log level.
RegisterOutcome(ans) ==
    IF ans = Status(200)
    THEN [ret |-> TRUE, level |-> "info"]
    ELSE [ret |-> FALSE, level |-> "error"]

\* Variant of AfterRegister that gives up when the registration failed.
AfterRegisterOrExit(ret) == IF ret THEN "fetch" ELSE "exited"

\* main, lines 173-178: a failed registration is logged as a warning and the
\* loop is entered all the same.
AfterRegister(ret) == "fetch"

\* Variant of SubscribeOutcome that logs every failure at debug level.
SubscribeOutcomeAllDebug(ans) ==
    CASE ans = Status(200) -> [ret |-> TRUE, level |-> "info"]
      [] OTHER -> [ret |-> FALSE, level |-> "debug"]

\* Variant of SubscribeOutcome without the branch for 404 (lines 103-107).
SubscribeOutcomeNo404(ans) ==
    CASE ans = Status(200) -> [ret |-> TRUE, level |-> "info"]
      [] ans = Raised -> [ret |-> FALSE, level |-> "debug"]
      [] OTHER -> [ret |-> FALSE, level |-> "warning"]

\* subscribe_to_events, lines 100-114: return value and log level.
SubscribeOutcome(ans) ==
    CASE ans = Status(200) -> [ret |-> TRUE, level |-> "info"]
      [] ans = Status(404) -> [ret |-> FALSE, level |-> "debug"]
      [] ans = Raised -> [ret |-> FALSE, level |-> "debug"]
      [] OTHER -> [ret |-> FALSE, level |-> "warning"]

\* Variant of AfterFetch without the status check of line 71.
AfterFetchUnchecked(fr) ==
    CASE fr = "empty" -> "subscribe"
      [] OTHER -> "construct"

\* process_messages, lines 71-83: where control goes once the GET has been
\* answered.  fr is the class of the answer.
AfterFetch(fr) ==
    CASE fr = "ok" -> "construct"
      [] fr = "empty" -> "subscribe"
      [] OTHER -> "sleep"

\* Variant of Done with the call of line 79 inside the for loop: the
\* subscribe attempt follows the first message.
DoneInsideLoop(r, i, log) ==
    [pc |-> "subscribe", idx |-> i, message |-> NoMessage, rest |-> r, log |-> log]

\* End of process_message for message i of the batch: the for loop of line
\* 75 takes the next of the messages r it has left, or falls through to
\* line 79.
Done(r, i, log) ==
    IF r # <<>>
    THEN [pc |-> "construct", idx |-> i + 1, message |-> Head(r), rest |-> Tail(r), log |-> log]
    ELSE [pc |-> "subscribe", idx |-> i, message |-> NoMessage, rest |-> <<>>, log |-> log]

\* Variant of Escaped without the try of process_messages: the exception
\* reaches main, whose try stops KeyboardInterrupt only.
EscapedUncaught(i) ==
    [pc |-> "exited", idx |-> i, message |-> NoMessage, rest |-> <<>>, log |-> NoLog]

\* Lines 82-83: an exception that leaves process_message is caught by the
\* except clause of process_messages, which logs and returns to main; the
\* messages the for loop had left are dropped.
Escaped(i) ==
    [pc |-> "sleep", idx |-> i, message |-> NoMessage, rest |-> <<>>,
     log |-> Log("process_messages", "error", "-")]

\* Lines 166-167: the except clause of process_message.  The handler itself
\* evaluates message.get(...), which raises when the message is no mapping.
Caught(m, r, i) ==
    LET g == MessageGet(m)
    IN  IF g.ok
        THEN Done(r, i, Log("process_message", "error", g.v))
        ELSE Escaped(i)

\* ------------------------------------------------------------------ state
VARIABLES
    pc,          \* statement the thread is about to execute
    fetched,     \* len(messages) of process_messages (lines 72-74)
    rest,        \* the messages the for loop of line 75 has not taken yet
    message,     \* the message the for loop has taken: the argument of
                 \* process_message
    idx,         \* position of message in the fetched list
    threshold,   \* agent.classifier_threshold of the agent built at line 120
    score,       \* interest_score (line 123), -1 before it is assigned
    result,      \* result (line 141, after line 146)
    hung,        \* a network call was made that never returns
    registerN,   \* history: POSTs to /api/agents/register so far
    fetchN,      \* history: GETs of /api/messages/pending in this cycle
    fetchRes,    \* history: class of this cycle's answer to the GET
    entered,     \* history: per batch position, calls of process_message
    interestN,   \* history: per batch position, interest POSTs in this cycle
    cur,         \* history: what the current (or the last) dispatch of the
                 \* batch has done, kept until the batch is over
    subscribeN,  \* history: POSTs to /api/agents/subscribe in this cycle
    subAns,      \* history: answer to this cycle's subscribe POST
    subRet,      \* history: value returned by subscribe_to_events
    consec404,   \* history: consecutive subscribe attempts answered 404
    lastLog,     \* history: the most recent log record
    seen         \* history: ids of the messages process_message was entered
                 \* for so far; recorded under SeenSpec only

vars == <<pc, fetched, rest, message, idx, threshold, score, result, hung, registerN,
          fetchN, fetchRes, entered, interestN, cur,
          subscribeN, subAns, subRet, consec404, lastLog, seen>>

locals == <<threshold, score, result>>
batch == <<fetched, rest, message>>
startup == <<registerN>>
hist == <<entered, interestN, cur>>
subscription == <<subscribeN, subAns, subRet, consec404>>

NoSent == [id |-> NoId, agent_id |-> "-", result |-> NoResult]
NoCur ==
    [pos |-> 0, msg |-> NoMessage, done |-> FALSE, threshold |-> -1, score |-> -1,
     again |-> FALSE, interestId |-> NoId, interestAns |-> NotCalled,
     processN |-> 0, returned |-> NoResult,
     resultN |-> 0, resultAns |-> NotCalled, sent |-> NoSent]

Positions == 1..MaxBatch
DispatchPcs == {"construct", "score", "interest", "process", "submit"}
Terminal == {"stopped", "killed", "exited"}

TypeOK ==
    /\ pc \in DispatchPcs \cup Terminal \cup {"register", "fetch", "subscribe", "sleep"}
    /\ fetched \in 0..MaxBatch
    /\ rest \in Batches
    /\ message \in Messages \cup {NoMessage}
    /\ idx \in 0..MaxBatch
    /\ threshold \in Thresholds \cup {-1}
    /\ score \in Scores \cup {-1}
    /\ result \in Results
    /\ hung \in BOOLEAN
    /\ registerN \in 0..1
    /\ fetchN \in 0..1
    /\ fetchRes \in {"none", "ok", "empty", "status", "raise", "decode"}
    /\ entered \in [Positions -> 0..1]
    /\ interestN \in [Positions -> 0..1]
    /\ cur.pos \in 0..MaxBatch
    /\ subscribeN \in 0..1
    /\ subAns \in Answers \cup {NotCalled}
    /\ subRet \in BOOLEAN
    /\ consec404 \in 0..Max404
    /\ seen \subseteq MsgIds

Init ==
    /\ pc = "register"
    /\ fetched = 0
    /\ rest = <<>>
    /\ message = NoMessage
    /\ idx = 0
    /\ threshold = -1
    /\ score = -1
    /\ result = NoResult
    /\ hung = FALSE
    /\ registerN = 0
    /\ fetchN = 0
    /\ fetchRes = "none"
    /\ entered = [k \in Positions |-> 0]
    /\ interestN = [k \in Positions |-> 0]
    /\ cur = NoCur
    /\ subscribeN = 0
    /\ subAns = NotCalled
    /\ subRet = FALSE
    /\ consec404 = 0
    /\ lastLog = NoLog
    /\ seen = {}

Running == ~hung /\ pc \notin Terminal

\* process_message is left, normally or by an exception: control goes where
\* ctl says and the locals of the call are gone.
Leave(ctl) ==
    /\ pc' = ctl.pc
    /\ idx' = ctl.idx
    /\ message' = ctl.message
    /\ rest' = ctl.rest
    /\ lastLog' = ctl.log
    /\ threshold' = -1
    /\ score' = -1
    /\ result' = NoResult

\* ---------------------------------------------------------------- actions
\* main, lines 173-174, with register_with_core_system, lines 40-60.
Register ==
    /\ Running /\ pc = "register"
    /\ registerN' = registerN + 1
    /\ \E ans \in PlainAnswers :
         IF ans = NoAnswer
         THEN /\ hung' = TRUE
              /\ UNCHANGED <<pc, lastLog>>
         ELSE LET o == RegisterOutcome(ans)
              IN  /\ lastLog' = IF o.ret
                                THEN Log("register_with_core_system", o.level, "-")
                                ELSE Log("main", "warning", "-")
                  /\ pc' = AfterRegister(o.ret)
                  /\ UNCHANGED hung
    /\ UNCHANGED <<batch, idx, locals, seen, fetchN, fetchRes, hist, subscription>>

\* process_messages, lines 64-74 and 80-83: the GET and the decoding of its
\* answer.
FetchPending ==
    /\ Running /\ pc = "fetch"
    /\ fetchN' = fetchN + 1
    /\ \E ans \in PlainAnswers :
         \/ /\ ans = NoAnswer
            /\ hung' = TRUE
            /\ UNCHANGED <<pc, batch, idx, fetchRes, lastLog>>
         \/ /\ ans = Raised
            /\ fetchRes' = "raise"
            /\ pc' = AfterFetch("raise")
            /\ lastLog' = Log("process_messages", "error", "-")
            /\ UNCHANGED <<hung, batch, idx>>
         \/ /\ ans.k = "status" /\ ans.code # 200
            /\ fetchRes' = "status"
            /\ pc' = AfterFetch("status")
            /\ lastLog' = Log("process_messages", "error", "-")
            /\ UNCHANGED <<hung, batch, idx>>
         \/ /\ ans = Status(200)       \* response.json() raises
            /\ fetchRes' = "decode"
            /\ pc' = AfterFetch("decode")
            /\ lastLog' = Log("process_messages", "error", "-")
            /\ UNCHANGED <<hung, batch, idx>>
         \/ /\ ans = Status(200)
            /\ \E b \in Batches :
                 /\ fetched' = Len(b)
                 /\ fetchRes' = IF b = <<>> THEN "empty" ELSE "ok"
                 /\ pc' = AfterFetch(fetchRes')
                 /\ idx' = IF b = <<>> THEN 0 ELSE 1
                 /\ message' = IF b = <<>> THEN NoMessage ELSE Head(b)
                 /\ rest' = IF b = <<>> THEN <<>> ELSE Tail(b)
                 /\ lastLog' = IF b = <<>> THEN lastLog
                               ELSE Log("process_messages", "info", "-")
            /\ UNCHANGED hung
    /\ UNCHANGED <<locals, startup, seen, hist, subscription>>

\* process_message, line 120: agent = AgentClass().  Nothing the process
\* holds tells whether message.id was dispatched before; cur.again records it
\* from the history.
ConstructStep ==
    /\ Running /\ pc = "construct"
    /\ entered' = [entered EXCEPT ![idx] = @ + 1]
    /\ \/ \E th \in Thresholds :
            /\ threshold' = th
            /\ cur' = [NoCur EXCEPT !.pos = idx, !.msg = message, !.threshold = th,
                                    !.again = (message.id \in seen)]
            /\ pc' = "score"
            /\ UNCHANGED <<idx, message, rest, lastLog, score, result>>
       \/ /\ cur' = [NoCur EXCEPT !.pos = idx, !.msg = message, !.done = TRUE,
                                  !.again = (message.id \in seen)]
          /\ Leave(Caught(message, rest, idx))
    /\ UNCHANGED <<fetched, hung, startup, fetchN, fetchRes, interestN, subscription>>

Construct == ConstructStep /\ UNCHANGED seen

\* Construct with the history of the ids dispatched so far.
ConstructSeen == ConstructStep /\ seen' = seen \cup ({message.id} \cap MsgIds)

\* Variant of CalculateInterest without phase one: no interest POST, the
\* gate of line 139 follows the score at once.
CalculateInterestOnly ==
    /\ Running /\ pc = "score"
    /\ \/ \E s \in Scores :
            IF MessageIndex(message).ok
            THEN IF Gate(s, threshold)
                 THEN /\ score' = s
                      /\ cur' = [cur EXCEPT !.score = s]
                      /\ pc' = "process"
                      /\ lastLog' = Log("process_message", "info", MessageIndex(message).v)
                      /\ UNCHANGED <<idx, message, rest, threshold, result>>
                 ELSE /\ cur' = [cur EXCEPT !.score = s, !.done = TRUE]
                      /\ Leave(Done(rest, idx, Log("process_message", "info", "skip")))
            ELSE /\ cur' = [cur EXCEPT !.score = s, !.done = TRUE]
                 /\ Leave(Caught(message, rest, idx))
       \/ /\ cur' = [cur EXCEPT !.done = TRUE]
          /\ Leave(Caught(message, rest, idx))
    /\ UNCHANGED <<fetched, hung, startup, seen, fetchN, fetchRes, entered, interestN, subscription>>

\* Variant of CalculateInterest that posts the interest of the messages that
\* pass the gate only.
CalculateInterestGated ==
    /\ Running /\ pc = "score"
    /\ \/ \E s \in Scores :
            IF MessageIndex(message).ok
            THEN IF Gate(s, threshold)
                 THEN /\ score' = s
                      /\ cur' = [cur EXCEPT !.score = s]
                      /\ pc' = "interest"
                      /\ lastLog' = Log("process_message", "info", MessageIndex(message).v)
                      /\ UNCHANGED <<idx, message, rest, threshold, result>>
                 ELSE /\ cur' = [cur EXCEPT !.score = s, !.done = TRUE]
                      /\ Leave(Done(rest, idx, Log("process_message", "info", "skip")))
            ELSE /\ cur' = [cur EXCEPT !.score = s, !.done = TRUE]
                 /\ Leave(Caught(message, rest, idx))
       \/ /\ cur' = [cur EXCEPT !.done = TRUE]
          /\ Leave(Caught(message, rest, idx))
    /\ UNCHANGED <<fetched, hung, startup, seen, fetchN, fetchRes, entered, interestN, subscription>>

\* process_message, lines 123-124: the score and the log line that reads
\* message['id'].
CalculateInterest ==
    /\ Running /\ pc = "score"
    /\ \/ \E s \in Scores :
            IF MessageIndex(message).ok
            THEN /\ score' = s
                 /\ cur' = [cur EXCEPT !.score = s]
                 /\ pc' = "interest"
                 /\ lastLog' = Log("process_message", "info", MessageIndex(message).v)
                 /\ UNCHANGED <<idx, message, rest, threshold, result>>
            ELSE /\ cur' = [cur EXCEPT !.score = s, !.done = TRUE]
                 /\ Leave(Caught(message, rest, idx))
       \/ /\ cur' = [cur EXCEPT !.done = TRUE]
          /\ Leave(Caught(message, rest, idx))
    /\ UNCHANGED <<fetched, hung, startup, seen, fetchN, fetchRes, entered, interestN, subscription>>

\* process_message, lines 128-139 and 163-164: phase one, the interest POST,
\* and the gate of phase two.
SubmitInterest ==
    /\ Running /\ pc = "interest"
    /\ interestN' = [interestN EXCEPT ![idx] = @ + 1]
    /\ \E ans \in PlainAnswers :
         CASE ans = NoAnswer ->
                /\ hung' = TRUE
                /\ cur' = [cur EXCEPT !.interestId = message.id, !.interestAns = ans]
                /\ UNCHANGED <<pc, idx, message, rest, lastLog, locals>>
           [] ans = Raised ->
                /\ cur' = [cur EXCEPT !.interestId = message.id, !.interestAns = ans, !.done = TRUE]
                /\ Leave(Caught(message, rest, idx))
                /\ UNCHANGED hung
           [] OTHER ->
                /\ IF Gate(score, threshold)
                   THEN /\ pc' = "process"
                        /\ cur' = [cur EXCEPT !.interestId = message.id, !.interestAns = ans]
                        /\ UNCHANGED <<idx, message, rest, lastLog, locals>>
                   ELSE /\ cur' = [cur EXCEPT !.interestId = message.id, !.interestAns = ans, !.done = TRUE]
                        /\ Leave(Done(rest, idx, Log("process_message", "info", "skip")))
                /\ UNCHANGED hung
    /\ UNCHANGED <<fetched, startup, seen, fetchN, fetchRes, entered, subscription>>

\* process_message, lines 141-146 and 161-162: phase two, the agent's
\* process_message and the preparation of its result.
ProcessMessage ==
    /\ Running /\ pc = "process"
    /\ \/ \E r \in Results :
            IF Truthy(r)
            THEN /\ result' = InjectAgentId(r)
                 /\ cur' = [cur EXCEPT !.processN = @ + 1, !.returned = r]
                 /\ pc' = "submit"
                 /\ UNCHANGED <<idx, message, rest, lastLog, threshold, score>>
            ELSE /\ cur' = [cur EXCEPT !.processN = @ + 1, !.returned = r, !.done = TRUE]
                 /\ Leave(Done(rest, idx, Log("process_message", "info", message.id)))
       \/ /\ cur' = [cur EXCEPT !.processN = @ + 1, !.done = TRUE]
          /\ Leave(Caught(message, rest, idx))
    /\ UNCHANGED <<fetched, hung, startup, seen, fetchN, fetchRes, entered, interestN, subscription>>

\* Variant of SubmitResult that posts again when the answer is not 200.
SubmitResultRetry ==
    /\ Running /\ pc = "submit"
    /\ \E ans \in PlainAnswers :
         /\ cur' = [cur EXCEPT !.resultN = @ + 1,
                               !.resultAns = ans,
                               !.sent = [id |-> message.id,
                                         agent_id |-> AGENT_ID,
                                         result |-> result],
                               !.done = (ans \in {Status(200), Raised})]
         /\ CASE ans = NoAnswer ->
                   /\ hung' = TRUE
                   /\ UNCHANGED <<pc, idx, message, rest, lastLog, locals>>
              [] ans = Raised ->
                   /\ Leave(Caught(message, rest, idx))
                   /\ UNCHANGED hung
              [] ans = Status(200) ->
                   /\ Leave(Done(rest, idx, Log("process_message", "info", message.id)))
                   /\ UNCHANGED hung
              [] OTHER ->
                   /\ lastLog' = Log("process_message", "warning", message.id)
                   /\ UNCHANGED <<pc, idx, message, rest, locals, hung>>
    /\ UNCHANGED <<fetched, startup, seen, fetchN, fetchRes, entered, interestN, subscription>>

\* process_message, lines 149-160: the result POST.
SubmitResult ==
    /\ Running /\ pc = "submit"
    /\ \E ans \in PlainAnswers :
         /\ cur' = [cur EXCEPT !.resultN = @ + 1,
                               !.resultAns = ans,
                               !.sent = [id |-> message.id,
                                         agent_id |-> AGENT_ID,
                                         result |-> result],
                               !.done = (ans # NoAnswer)]
         /\ CASE ans = NoAnswer ->
                   /\ hung' = TRUE
                   /\ UNCHANGED <<pc, idx, message, rest, lastLog, locals>>
              [] ans = Raised ->
                   /\ Leave(Caught(message, rest, idx))
                   /\ UNCHANGED hung
              [] OTHER ->
                   /\ Leave(Done(rest, idx,
                                 Log("process_message",
                                     IF ans = Status(200) THEN "info" ELSE "warning",
                                     message.id)))
                   /\ UNCHANGED hung
    /\ UNCHANGED <<fetched, startup, seen, fetchN, fetchRes, entered, interestN, subscription>>

\* process_messages, line 79, with subscribe_to_events, lines 85-114.
SubscribeToEvents ==
    /\ Running /\ pc = "subscribe"
    /\ subscribeN' = subscribeN + 1
    /\ \E ans \in Answers :
         /\ subAns' = ans
         /\ IF ans = NoAnswer
            THEN /\ hung' = TRUE
                 /\ UNCHANGED <<pc, subRet, consec404, lastLog>>
            ELSE LET o == SubscribeOutcome(ans)
                 IN  /\ subRet' = o.ret
                     /\ lastLog' = Log("subscribe_to_events", o.level, "-")
                     /\ consec404' = IF ans # Status(404) THEN 0
                                     ELSE IF consec404 < Max404 THEN consec404 + 1
                                     ELSE Max404
                     /\ pc' = "sleep"
                     /\ UNCHANGED hung
    /\ cur' = NoCur
    /\ UNCHANGED <<batch, idx, locals, startup, seen, fetchN, fetchRes, entered, interestN>>

\* Variant of Sleep in which an acknowledged subscription replaces the poll of
\* the next cycle.
SleepPushAware ==
    /\ Running /\ pc = "sleep"
    /\ pc' = IF subRet THEN "subscribe" ELSE "fetch"
    /\ fetched' = 0
    /\ rest' = <<>>
    /\ message' = NoMessage
    /\ idx' = 0
    /\ fetchN' = 0
    /\ fetchRes' = "none"
    /\ entered' = [k \in Positions |-> 0]
    /\ interestN' = [k \in Positions |-> 0]
    /\ cur' = NoCur
    /\ subscribeN' = 0
    /\ subAns' = NotCalled
    /\ subRet' = FALSE
    /\ UNCHANGED <<locals, hung, startup, seen, consec404, lastLog>>

\* main, lines 178-180: time.sleep(5) returns and the loop starts the next
\* cycle.  The per-cycle history starts afresh.
Sleep ==
    /\ Running /\ pc = "sleep"
    /\ pc' = "fetch"
    /\ fetched' = 0
    /\ rest' = <<>>
    /\ message' = NoMessage
    /\ idx' = 0
    /\ fetchN' = 0
    /\ fetchRes' = "none"
    /\ entered' = [k \in Positions |-> 0]
    /\ interestN' = [k \in Positions |-> 0]
    /\ cur' = NoCur
    /\ subscribeN' = 0
    /\ subAns' = NotCalled
    /\ subRet' = FALSE
    /\ UNCHANGED <<locals, hung, startup, seen, consec404, lastLog>>

\* KeyboardInterrupt.  It is no Exception, so no `except Exception` clause
\* stops it; the try of main (lines 177-182) covers the loop only, not the
\* registration of line 173.
Interrupt ==
    /\ pc \notin Terminal
    /\ IF pc = "register"
       THEN /\ pc' = "killed"
            /\ UNCHANGED lastLog
       ELSE /\ pc' = "stopped"
            /\ lastLog' = Log("main", "info", "shutdown")
    /\ UNCHANGED <<batch, idx, locals, hung, startup, seen, fetchN, fetchRes, hist, subscription>>

\* The steps of the program itself.
Proceed ==
    \/ Register
    \/ FetchPending
    \/ Construct
    \/ CalculateInterest
    \/ SubmitInterest
    \/ ProcessMessage
    \/ SubmitResult
    \/ SubscribeToEvents
    \/ Sleep

Next == Proceed \/ Interrupt

Spec == Init /\ [][Next]_vars

\* The thread is never starved: whenever the program can take a step it
\* eventually does.
FairSpec == Spec /\ WF_vars(Proceed)

\* The program with the history of the dispatched ids.
NextSeen ==
    \/ Register
    \/ FetchPending
    \/ ConstructSeen
    \/ CalculateInterest
    \/ SubmitInterest
    \/ ProcessMessage
    \/ SubmitResult
    \/ SubscribeToEvents
    \/ Sleep
    \/ Interrupt

SeenSpec == Init /\ [][NextSeen]_vars

\* ------------------------------------------------------------ properties
Interrupted == pc \in {"stopped", "killed"}

\* The dispatch of the message at cur.pos is over: process_message returned
\* or was left by an exception.
Dispatched == cur.done /\ cur.pos >= 1

\* The for loop of line 75 is over for this cycle: the batch was run through
\* or abandoned.
BatchOver == fetchRes = "ok" /\ pc \in {"subscribe", "sleep"}

\* A record of the data model: a mapping that carries an id.
WellFormed(m) == MessageIndex(m).ok

\* C1: in the dispatch of a message (a record with an id), the agent's
\* process_message is invoked exactly once when score >= threshold and never
\* when score < threshold.
C1_ProcessIffGate ==
    (Dispatched /\ WellFormed(cur.msg) /\ cur.score >= 0 /\ cur.threshold >= 0)
        => cur.processN = (IF cur.score >= cur.threshold THEN 1 ELSE 0)

\* C2 as stated: once the batch of a successful fetch has been gone through,
\* an interest POST has been attempted for every message of the batch.
C2_InterestForEveryFetched ==
    BatchOver => \A k \in 1..fetched : interestN[k] >= 1

\* C2 as amended: a message with an id on which process_message is entered
\* and for which the agent is built and returns a score gets exactly one
\* interest POST in that dispatch, whatever the score is, and none before
\* the score is there; what earlier POSTs were answered makes no difference.
C2_InterestForEveryScored ==
    /\ (Dispatched /\ WellFormed(cur.msg) /\ cur.score >= 0)
           => interestN[cur.pos] = 1
    /\ (Dispatched /\ (cur.score < 0 \/ ~WellFormed(cur.msg)))
           => interestN[cur.pos] = 0
    /\ pc \in {"process", "submit"} => interestN[idx] = 1
    /\ \A k \in Positions : interestN[k] <= entered[k]

C2_Witness ==
    /\ Dispatched /\ cur.pos = 2
    /\ interestN[1] = 0
    /\ cur.score >= 0 /\ cur.score < cur.threshold
    /\ cur.interestAns = Status(500)
    /\ interestN[2] = 1

\* C3: batch isolation: once the batch has been gone through, process_message
\* has been entered for every message of it, whatever went wrong in the
\* dispatch of the messages before.
C3_BatchIsolation ==
    BatchOver => \A k \in 1..fetched : entered[k] = 1

\* C4: a failed interest POST (a status other than 200, or a raised error)
\* does not abort phase two: when score >= threshold the agent's
\* process_message is still invoked.
C4_FailedInterestKeepsPhaseTwo ==
    (Dispatched /\ cur.interestAns \in {Status(500), Raised} /\ Gate(cur.score, cur.threshold))
        => cur.processN = 1

\* C5: the result that is submitted is the dict the agent returned, with
\* agent_id = AGENT_ID added when the key was missing, with the agent's own
\* agent_id kept when it was there, and with every other key unchanged.
C5_AgentIdInjected ==
    cur.resultN >= 1 =>
        LET r == cur.returned
            s == cur.sent.result
        IN  /\ s.kind = r.kind
            /\ r.kind = "dict" =>
                 /\ DOMAIN s.d = DOMAIN r.d \cup {"agent_id"}
                 /\ \A key \in DOMAIN r.d : s.d[key] = r.d[key]
                 /\ "agent_id" \notin DOMAIN r.d => s.d["agent_id"] = AGENT_ID

C5_Witness ==
    /\ cur.resultN = 1
    /\ cur.returned.kind = "dict"
    /\ DOMAIN cur.returned.d = {"data"}
    /\ cur.sent.result.d["agent_id"] = AGENT_ID
    /\ cur.sent.result.d["data"] = "x"

\* C6: every iteration of the loop makes a subscribe attempt, whatever the
\* fetch of that iteration came to: when the iteration reaches its sleep, the
\* subscribe POST has been made.
C6_SubscribeEveryIteration ==
    pc = "sleep" => subscribeN = 1

\* C7: no error ends the loop: the process is never left but by an
\* interrupt, and as long as no interrupt arrives and every call returns,
\* a fetch is attempted again and again.
C7_LoopNeverDies ==
    /\ [](pc # "exited")
    /\ (<>(hung \/ Interrupted) \/ []<><<FetchPending>>_vars)

C7_Witness ==
    /\ fetchN = 1 /\ fetchRes = "empty"
    /\ lastLog = Log("process_messages", "error", "-")

\* C8: a cycle whose fetch failed (status other than 200, raised error,
\* undecodable body) or brought an empty list dispatches nothing: no call of
\* the agent, no interest POST, no result POST; and unless interrupted or
\* stuck in a call, the loop gets to the fetch of the next cycle.
NoDispatch ==
    /\ pc \notin DispatchPcs
    /\ cur = NoCur
    /\ \A k \in Positions : entered[k] = 0 /\ interestN[k] = 0

FetchBroughtNothing == fetchRes \in {"status", "raise", "decode", "empty"}

C8_NothingFetchedNothingDispatched ==
    /\ [](FetchBroughtNothing => NoDispatch)
    /\ (FetchBroughtNothing ~> (pc = "fetch" \/ hung \/ Interrupted))

C8_Witness ==
    /\ FetchBroughtNothing /\ fetchRes = "status"
    /\ pc = "sleep" /\ subscribeN = 0

\* C9: registration is attempted exactly once, before the first fetch, and
\* whatever it is answered the first fetch is made (unless the process is
\* interrupted or a call never returns).
C9_RegisterOnceThenPoll ==
    /\ [](registerN <= 1)
    /\ [](pc # "register" /\ ~Interrupted => registerN = 1)
    /\ [](fetchN >= 1 => registerN = 1)
    /\ <>(hung \/ Interrupted \/ fetchN = 1)

C9_Witness ==
    /\ registerN = 1
    /\ lastLog = Log("main", "warning", "-")
    /\ fetchN = 1

\* C10: a subscribe attempt answered 404 logs at debug level only, returns
\* false, and after any number of 404 answers in a row the loop gets to the
\* next fetch (unless interrupted).
C10_Subscribe404IsQuiet ==
    /\ []((pc = "sleep" /\ subAns = Status(404)) =>
            /\ lastLog = Log("subscribe_to_events", "debug", "-")
            /\ subRet = FALSE)
    /\ (pc = "sleep" /\ subAns = Status(404) /\ consec404 >= 1)
           ~> (Interrupted \/ (pc = "fetch" /\ consec404 >= 1))
    /\ (pc = "fetch" /\ consec404 >= 1) ~> (Interrupted \/ fetchN = 1)

C10_Witness ==
    /\ consec404 = Max404
    /\ pc = "fetch"
    /\ lastLog = Log("subscribe_to_events", "debug", "-")


\* C11: phase ordering: a result POST for a message comes, within the same
\* dispatch, after an interest POST for the same message id; no result is
\* submitted for a message whose interest POST was not made first.
C11_InterestBeforeResult ==
    /\ pc = "submit" => (interestN[idx] = 1 /\ cur.interestId = message.id)
    /\ cur.resultN >= 1 =>
          /\ interestN[cur.pos] = 1
          /\ cur.interestAns # NotCalled
          /\ cur.interestId = cur.sent.id

C11_Witness ==
    /\ cur.resultN = 1
    /\ cur.sent.id = "m2"
    /\ cur.interestId = "m2"
    /\ cur.interestAns = Status(500)

\* C12: the process ends on an external interrupt only, and an interrupt at
\* any point after start (registration, fetch, dispatch, subscribe, sleep) is
\* answered by the shutdown log and a clean exit: no call is made afterwards
\* and the messages left in the batch are not dispatched.
C12_InterruptStopsCleanly ==
    /\ pc \in Terminal => Interrupted
    /\ Interrupted => lastLog = Log("main", "info", "shutdown")
    /\ Interrupted => ~ENABLED Proceed

\* C13: every network call is bounded by a request timeout: no call stays
\* without return when the service never answers, so the cycle goes on to its
\* sleep.
C13_EveryCallReturns == ~hung

SubscribeFailed == pc = "sleep" /\ subAns \notin {NotCalled, NoAnswer, Status(200), Status(404)}

\* C14 (as stated): a subscribe attempt that fails otherwise than with 404 (a
\* status other than 200 and 404, or a raised transport error) is logged at
\* warning level and returns false.
C14_SubscribeFailureWarns ==
    SubscribeFailed =>
        /\ lastLog = Log("subscribe_to_events", "warning", "-")
        /\ subRet = FALSE

\* C14 (amended): a subscribe attempt answered with a status other than 200 and
\* 404 is logged at warning level; one that raises a transport error is logged
\* at debug level; both return false.
C14_SubscribeFailureLevels ==
    SubscribeFailed =>
        /\ subRet = FALSE
        /\ lastLog = Log("subscribe_to_events",
                         IF subAns = Raised THEN "debug" ELSE "warning", "-")

C14_Witness ==
    /\ pc = "sleep"
    /\ subAns = Status(500)
    /\ lastLog = Log("subscribe_to_events", "warning", "-")
    /\ subRet = FALSE

Acknowledged == lastLog = Log("subscribe_to_events", "info", "-")

Empty(r) == r = NoResult \/ (r.kind = "dict" /\ r.d = EmptyDict)

\* C16: a result POST is made only for a message whose score reached the
\* threshold and for which the agent's process_message returned a non-empty
\* result; what is posted is that result.
C16_ResultOnlyWhenProduced ==
    /\ pc = "submit" =>
          /\ Gate(score, threshold)
          /\ cur.processN = 1
          /\ ~Empty(cur.returned)
    /\ cur.resultN >= 1 =>
          /\ Gate(cur.score, cur.threshold)
          /\ cur.processN = 1
          /\ ~Empty(cur.returned)
          /\ cur.sent.result = InjectAgentId(cur.returned)
    /\ (Dispatched /\ (~Gate(cur.score, cur.threshold) \/ Empty(cur.returned))) =>
          cur.resultN = 0

C16_Witness ==
    /\ Dispatched
    /\ Gate(cur.score, cur.threshold)
    /\ cur.processN = 1
    /\ cur.returned.kind = "dict"
    /\ Empty(cur.returned)
    /\ cur.resultN = 0

\* C17: nothing is retried: a dispatch makes at most one interest POST and at
\* most one result POST, and a result whose POST was not answered 200 is held
\* nowhere once process_message is left, so it is not posted again in this
\* cycle or a later one.
C17_NoRetry ==
    /\ \A k \in Positions : interestN[k] <= 1
    /\ cur.resultN <= 1
    /\ cur.resultN <= cur.processN
    /\ pc \in {"fetch", "construct", "subscribe", "sleep"} => result = NoResult
    /\ pc = "fetch" => cur = NoCur

C17_Witness ==
    /\ Dispatched
    /\ cur.resultN = 1
    /\ cur.resultAns = Status(500)
    /\ pc = "construct"
    /\ result = NoResult

\* C18: dispatch is strictly sequential: the messages of a batch are taken in
\* the order of the fetched sequence, one at a time, and the next poll does not
\* start before every message of the batch has been dispatched.
C18_SequentialWholeBatch ==
    /\ \A k \in Positions : entered[k] <= 1
    /\ \A k \in Positions : entered[k] = 1 => \A j \in 1..(k - 1) : entered[j] = 1
    /\ pc \in DispatchPcs \ {"construct"} => (cur.pos = idx /\ ~cur.done)
    /\ (pc = "sleep" /\ fetchRes = "ok") =>
          (rest = <<>> /\ \A k \in 1..fetched : entered[k] = 1)

\* C20: a cycle makes exactly one poll and at most one subscribe attempt, and
\* the subscribe attempt, when made, comes after the dispatch of every message
\* of the batch and before the sleep.
C20_OneFetchOneSubscribe ==
    /\ fetchN <= 1
    /\ subscribeN <= 1
    /\ pc \in DispatchPcs \cup {"subscribe", "sleep"} => fetchN = 1
    /\ pc = "fetch" => subscribeN = 0
    /\ pc \in DispatchPcs => subscribeN = 0
    /\ (pc = "subscribe" \/ subscribeN = 1) =>
          /\ fetchRes \in {"ok", "empty"}
          /\ rest = <<>>
          /\ message = NoMessage
          /\ \A k \in 1..fetched : entered[k] = 1

C20_Witness ==
    /\ pc = "sleep"
    /\ fetchN = 1
    /\ subscribeN = 1
    /\ fetched = MaxBatch
    /\ \A k \in 1..fetched : entered[k] = 1

\* C19: dispatch keeps no memory: a message whose id was dispatched in an
\* earlier cycle and is fetched again is dispatched like the first time: once
\* the agent has scored it, its interest is posted, and it is processed when
\* the score reaches the threshold (and only then).
C19_DispatchedAgainAlike ==
    (Dispatched /\ cur.pos = 1 /\ cur.again /\ cur.score >= 0) =>
        /\ entered[1] = 1
        /\ interestN[1] = 1
        /\ cur.processN = (IF Gate(cur.score, cur.threshold) THEN 1 ELSE 0)

====
